---- MODULE Spec2Model ----
(***************************************************************************)
(* State-machine model of eldrin-app-vue: the createApp lifecycle          *)
(* (bootstrap / mount / unmount) of src/src/createApp.ts, its migration    *)
(* aware bootstrap, combineLifecycles, and the accessors (composables) of  *)
(* src/src/composables.ts.                                                 *)
(*                                                                         *)
(* One action is one synchronous segment of the JavaScript code: from a    *)
(* call or an await continuation to the next await or to the return.       *)
(* Optional values (T | null, T | undefined) are sequences of length <= 1: *)
(* None is null/undefined and Some(x) is x.                                *)
(***************************************************************************)
EXTENDS Integers, Sequences, FiniteSets, TLC

\* ------------------------------------------------------------------ bounds
MaxHostCalls == 3   \* lifecycle functions the host invokes in one run
MaxMigrations == 1  \* the options' migrations list has 0..MaxMigrations files
MaxPhases == 2      \* a probe lifecycle's phase arrays have 0..MaxPhases functions

\* ------------------------------------------------------------------ values
None == <<>>
Some(x) == <<x>>

Null == "null"
Handles == {"db1"}
\* props.db: a D1Database handle, or absent
PropsDb == Handles \cup {Null}

Messages == {"M"}
\* MigrationResult of eldrin-app-core: success, executed, optional error
\* descriptor; the runner executes at most the n migration files it is given
MigrationResults(n) ==
  [success : BOOLEAN,
   executed : 0..n,
   error : {None} \cup {Some([message |-> m]) : m \in Messages}]

\* JavaScript values that can be thrown: an Error object (text is its message,
\* ref its identity) or a non-Error value such as a string or undefined.
ThrownByRunner ==
  {[kind |-> "Error", text |-> "runner failed", ref |-> "runnerError"],
   [kind |-> "string", text |-> "runner failed", ref |-> "-"]}
ThrownByCallback ==
  {[kind |-> "Error", text |-> "callback failed", ref |-> "callbackError"]}

\* new Error(message): a fresh Error object
NewError(message) == [kind |-> "Error", text |-> message, ref |-> "new"]

\* String(value) for the non-Error values of the model
ToStr(v) == IF v.kind = "undefined" THEN "undefined" ELSE v.text

\* Mutant of NormalizeError: every raised value is wrapped in a new Error
NormalizeError_AlwaysWraps(e) == NewError(ToStr(e))

\* error instanceof Error ? error : new Error(String(error))
NormalizeError(e) == IF e.kind = "Error" THEN e ELSE NewError(ToStr(e))

\* What one invocation of a caller-supplied callback does: return (None) or throw
CallbackOutcomes == {None} \cup {Some(v) : v \in ThrownByCallback}

\* What the callbacks invoked by one segment of bootstrap do, in the order of
\* their invocation. A segment invokes at most two, and the second only when
\* the first has thrown.
CallbackScripts ==
  {<<None>>} \cup {<<o1, o2>> : o1 \in CallbackOutcomes \ {None}, o2 \in CallbackOutcomes}

\* CreateAppOptions: the migrations list (its length; the files are opaque) and
\* which optional callbacks the caller supplied
CreateAppOptions ==
  [migrations : 0..MaxMigrations,
   onMigrationsComplete : BOOLEAN,
   onMigrationError : BOOLEAN,
   configureApp : BOOLEAN]

\* --------------------------------------------------------- the shell global
\* Record<string, string>: a mapping is the set of its <<name, value>> pairs
NoHeaders == {}
Headers == {{<<"Authorization", "Bearer t">>}}

\* What the shell's getAuthHeaders does when it is called: return a mapping,
\* or throw
Capabilities ==
  {[does |-> "returns", headers |-> h, error |-> None] : h \in Headers}
  \cup
  {[does |-> "throws", headers |-> NoHeaders,
    error |-> Some([kind |-> "Error", text |-> "shell failed", ref |-> "shellError"])]}

\* EldrinGlobal: the optional getAuthHeaders capability (the accessors read no
\* other member)
EldrinGlobals == [getAuthHeaders : {None} \cup {Some(c) : c \in Capabilities}]

\* window.__ELDRIN__: absent, or an EldrinGlobal
ShellGlobals == {None} \cup {Some(g) : g \in EldrinGlobals}

\* Where an accessor is called from: the setup of a component of the mounted
\* app instance, or a place with no app context
Sites == {"component", "outside"}

\* ------------------------------------------------------------- lifecycles
\* A lifecycle function is identified by its owner (E: the createApp lifecycle;
\* A, B: probe lifecycles that log their invocations), its phase and its place
\* in the owner's phase array.
Fn(owner, op, k) == [owner |-> owner, op |-> op, k |-> k]

\* LifecycleFn<T> | LifecycleFn<T>[]: one function (fns[1]) or an array
SingleFn(f) == [isArray |-> FALSE, fns |-> <<f>>]
ArrayOf(owner, op, n) == [isArray |-> TRUE, fns |-> [k \in 1..n |-> Fn(owner, op, k)]]

\* return { bootstrap, mount: vueLifecycles.mount, unmount: vueLifecycles.unmount }
EldrinLifecycle ==
  [bootstrap |-> SingleFn(Fn("E", "bootstrap", 1)),
   mount |-> SingleFn(Fn("E", "mount", 1)),
   unmount |-> SingleFn(Fn("E", "unmount", 1))]

\* The probe lifecycles: every phase an array of n functions, or one function
ProbeLifecycles(owner) ==
  {[bootstrap |-> ArrayOf(owner, "bootstrap", n),
    mount |-> ArrayOf(owner, "mount", n),
    unmount |-> ArrayOf(owner, "unmount", n)] : n \in 0..MaxPhases}
  \cup
  {[bootstrap |-> SingleFn(Fn(owner, "bootstrap", 1)),
    mount |-> SingleFn(Fn(owner, "mount", 1)),
    unmount |-> SingleFn(Fn(owner, "unmount", 1))]}

Ops == {"bootstrap", "mount", "unmount"}

VARIABLES
  opts,             \* the options createApp was called with
  state,            \* AppState, closed over by the lifecycle
  databaseContext,  \* the reactive DatabaseContext
  boot,             \* the latest invocation of bootstrap: promise, db, runner
  nCalls,           \* how many invocations of bootstrap have started
  runnerCalls,      \* how many times runMigrations has been invoked
  last,             \* trace of the latest synchronous segment of bootstrap
  vue,              \* the bridge's Vue app instance and its latest render
  wiring,           \* what the host drives: the createApp lifecycle directly,
                    \* or combineLifecycles(A, B)
  task,             \* the latest invocation of a merged lifecycle function
  host,             \* the host's bookkeeping
  shell,            \* window.__ELDRIN__
  acc               \* the latest accessor call and what it gave

vars == <<opts, state, databaseContext, boot, nCalls, runnerCalls, last,
          vue, wiring, task, host, shell, acc>>

accVars == <<shell, acc>>

bootVars == <<databaseContext, boot, nCalls, runnerCalls, last>>

\* The three fields AppState shares with DatabaseContext
Shared(s) ==
  [db |-> s.db, migrationsComplete |-> s.migrationsComplete,
   migrationResult |-> s.migrationResult]

Snapshot(s, c) == [state |-> Shared(s), ctx |-> c]

InitialState ==
  [db |-> Null, migrationsComplete |-> FALSE, migrationResult |-> None,
   vueApp |-> None]

InitialContext ==
  [db |-> Null, migrationsComplete |-> FALSE, migrationResult |-> None]

\* An invocation of bootstrap that has not started
IdleCall == [pc |-> "idle", db |-> Null, runner |-> "notInvoked"]

\* No segment of bootstrap has run yet
NoSegment ==
  [call |-> 0, kind |-> "none", db |-> Null, result |-> None, raised |-> None,
   runnerInvoked |-> FALSE, complete |-> <<>>, error |-> <<>>,
   outcome |-> "none", rejection |-> None,
   post |-> Snapshot(InitialState, InitialContext)]

\* No Vue app instance has been created yet
NoInstance ==
  [mounted |-> FALSE, instances |-> 0, events |-> <<>>, promise |-> "none",
   render |-> None, provided |-> None]

\* No accessor has been called yet
NoCall ==
  [fn |-> "none", site |-> "none", bootPc |-> "idle", ret |-> None,
   warned |-> FALSE, raised |-> None]

\* No merged lifecycle function has been invoked yet
IdleTask ==
  [op |-> "none", db |-> Null, plan |-> <<>>, i |-> 0, cur |-> "none",
   status |-> "idle", trace |-> <<>>, rejection |-> None]

Wirings ==
  {[mode |-> "direct", A |-> EldrinLifecycle, B |-> EldrinLifecycle]}
  \cup
  [mode : {"combined"},
   A : {EldrinLifecycle} \cup ProbeLifecycles("A"),
   B : ProbeLifecycles("B")]

DefaultOptions ==
  [migrations |-> 0, onMigrationsComplete |-> FALSE,
   onMigrationError |-> FALSE, configureApp |-> FALSE]

\* The options that matter to a wiring: all of them where the host drives the
\* createApp lifecycle directly; the migrations and the error callback where
\* it is the first argument of combineLifecycles (its mount is never called
\* there); none where it is not part of the wiring
OptionsOf(w) ==
  IF w.mode = "direct" THEN CreateAppOptions
  ELSE IF w.A = EldrinLifecycle
  THEN {[DefaultOptions EXCEPT !.migrations = n, !.onMigrationError = e] :
          n \in 0..MaxMigrations, e \in BOOLEAN}
  ELSE {DefaultOptions}

\* createApp(options) has returned: nothing has run yet
Constructed ==
  /\ vue = NoInstance
  /\ task = IdleTask
  /\ host = [calls |-> 0, booted |-> FALSE]
  /\ state = InitialState
  /\ databaseContext = InitialContext
  /\ boot = IdleCall
  /\ nCalls = 0
  /\ runnerCalls = 0
  /\ last = NoSegment
  /\ acc = NoCall

\* The lifecycle functions read neither the shell global nor the accessors:
\* here the app runs standalone, window.__ELDRIN__ absent
Init ==
  /\ wiring \in Wirings
  /\ opts \in OptionsOf(wiring)
  /\ shell = None
  /\ Constructed

\* ------------------------------------------------ bootstrap, sync segments
\* The memory a synchronous segment of bootstrap works on: the two records,
\* the callback invocations it makes (complete, error) and what it has thrown
Machine(script) ==
  [state |-> state, ctx |-> databaseContext,
   complete |-> <<>>, error |-> <<>>, thrown |-> None, script |-> script]

\* Mutant of MarkCompleteNoDb: the branch also clears the stored result
MarkCompleteNoDb_ClearsResult(m) ==
  [m EXCEPT !.state.migrationsComplete = TRUE,
            !.ctx.migrationsComplete = TRUE,
            !.state.migrationResult = None,
            !.ctx.migrationResult = None]

\* if (!db) { ...; return }
MarkCompleteNoDb(m) ==
  [m EXCEPT !.state.migrationsComplete = TRUE,
            !.ctx.migrationsComplete = TRUE]

\* Mutant of RecordDb: the handle reaches AppState only
RecordDb_StateOnly(m, db) ==
  [m EXCEPT !.state.db = db]

\* Mutant of RecordDb: the records are marked complete with the handle
RecordDb_MarksComplete(m, db) ==
  [m EXCEPT !.state.db = db, !.ctx.db = db,
            !.state.migrationsComplete = TRUE,
            !.ctx.migrationsComplete = TRUE]

\* state.db = db; databaseContext.db = db
RecordDb(m, db) ==
  [m EXCEPT !.state.db = db, !.ctx.db = db]

\* else { state.migrationsComplete = true; databaseContext.migrationsComplete = true }
MarkCompleteNoMigrations(m) ==
  [m EXCEPT !.state.migrationsComplete = TRUE,
            !.ctx.migrationsComplete = TRUE]

\* Mutant of StoreResult: the result reaches AppState only
StoreResult_StateOnly(m, result) ==
  [m EXCEPT !.state.migrationResult = Some(result),
            !.state.migrationsComplete = result.success]

\* The four assignments after the await
StoreResult(m, result) ==
  [m EXCEPT !.state.migrationResult = Some(result),
            !.state.migrationsComplete = result.success,
            !.ctx.migrationResult = Some(result),
            !.ctx.migrationsComplete = result.success]

\* onMigrationsComplete?.(result): a supplied callback is invoked, and does
\* what the script says next
CallOnMigrationsComplete(m, result) ==
  IF opts.onMigrationsComplete
  THEN [m EXCEPT !.complete = Append(@, result),
                 !.thrown = Head(m.script), !.script = Tail(m.script)]
  ELSE m

\* onMigrationError?.(error)
CallOnMigrationError(m, error) ==
  IF opts.onMigrationError
  THEN [m EXCEPT !.error = Append(@, error),
                 !.thrown = Head(m.script), !.script = Tail(m.script)]
  ELSE m

\* The try block from the assignment of result on
TryBlock(m, result) ==
  LET m1 == StoreResult(m, result)
  IN IF result.success
     THEN CallOnMigrationsComplete(m1, result)
     ELSE IF result.error # None
          THEN CallOnMigrationError(m1, NewError(result.error[1].message))
          ELSE m1

\* catch (error) { ... }
CatchBlock(m, error) ==
  LET m1 == [m EXCEPT !.state.migrationsComplete = FALSE,
                      !.ctx.migrationsComplete = FALSE,
                      !.thrown = None]
  IN CallOnMigrationError(m1, NormalizeError(error))

\* try { ... } catch { ... } once the runner has resolved with result
AfterRunnerResolved(m, result) ==
  LET m1 == TryBlock(m, result)
  IN IF m1.thrown # None THEN CatchBlock(m1, m1.thrown[1]) ELSE m1

\* try { ... } catch { ... } once the runner has raised error
AfterRunnerRaised(m, error) == CatchBlock(m, error)

\* The async function's promise: rejected with what escaped, else resolved
Settled(m) == IF m.thrown # None THEN "rejected" ELSE "resolved"

\* Mutant of SuspendOnRunner: the runner is invoked and not awaited
SuspendOnRunner_NotAwaited(c) == [c EXCEPT !.pc = "resolved", !.runner = "inFlight"]

\* const result = await runMigrations(db, { migrations }): the runner has been
\* invoked and bootstrap is suspended until it settles
SuspendOnRunner(c) == [c EXCEPT !.pc = "awaiting", !.runner = "inFlight"]

\* The segment's writes reach the two records, and its trace is kept
Commit(m, seg) ==
  /\ state' = m.state
  /\ databaseContext' = m.ctx
  /\ last' = [seg EXCEPT !.complete = m.complete, !.error = m.error,
                         !.rejection = m.thrown,
                         !.post = Snapshot(m.state, m.ctx)]

\* Mutant of HasMigrations: the runner is invoked for an empty list as well
HasMigrations_Always == TRUE

\* Mutant of HasMigrations: a guard lets the runner be invoked once only
HasMigrations_OnceOnly == opts.migrations > 0 /\ runnerCalls = 0

\* if (migrations.length > 0); an omitted option is the empty list
HasMigrations == opts.migrations > 0

\* bootstrap(props) up to its first await or its return
Bootstrap(db) ==
  /\ LET i == nCalls + 1
         c == [IdleCall EXCEPT !.db = db]
         seg == [NoSegment EXCEPT !.call = i, !.kind = "call", !.db = db]
     IN /\ nCalls' = i
        /\ IF db = Null
           THEN LET m == MarkCompleteNoDb(Machine(<<>>))
                IN /\ Commit(m, [seg EXCEPT !.outcome = Settled(m)])
                   /\ boot' = [c EXCEPT !.pc = Settled(m)]
                   /\ UNCHANGED runnerCalls
           ELSE IF HasMigrations
                THEN LET m == RecordDb(Machine(<<>>), db)
                     IN /\ Commit(m, [seg EXCEPT !.outcome = "suspended",
                                                 !.runnerInvoked = TRUE])
                        /\ boot' = SuspendOnRunner(c)
                        /\ runnerCalls' = runnerCalls + 1
                ELSE LET m == MarkCompleteNoMigrations(RecordDb(Machine(<<>>), db))
                     IN /\ Commit(m, [seg EXCEPT !.outcome = Settled(m)])
                        /\ boot' = [c EXCEPT !.pc = Settled(m)]
                        /\ UNCHANGED runnerCalls

\* runMigrations resolves with result: the continuation of the invocation
RunnerResolves(result, script) ==
  /\ boot.runner = "inFlight"
  /\ LET m == AfterRunnerResolved(Machine(script), result)
         seg == [NoSegment EXCEPT !.call = nCalls, !.kind = "resolved",
                                  !.db = boot.db, !.result = Some(result),
                                  !.outcome = Settled(m)]
     IN /\ Commit(m, seg)
        /\ boot' = [boot EXCEPT !.pc = Settled(m), !.runner = "settled"]
  /\ UNCHANGED <<opts, nCalls, runnerCalls, vue, wiring, task, host>>
  /\ UNCHANGED accVars

\* runMigrations raises error: the continuation of the invocation
RunnerRaises(error, script) ==
  /\ boot.runner = "inFlight"
  /\ LET m == AfterRunnerRaised(Machine(script), error)
         seg == [NoSegment EXCEPT !.call = nCalls, !.kind = "raised",
                                  !.db = boot.db, !.raised = Some(error),
                                  !.outcome = Settled(m)]
     IN /\ Commit(m, seg)
        /\ boot' = [boot EXCEPT !.pc = Settled(m), !.runner = "settled"]
  /\ UNCHANGED <<opts, nCalls, runnerCalls, vue, wiring, task, host>>
  /\ UNCHANGED accVars

\* ------------------------------------------------------- mount and unmount
\* Mutant of Render: the props are the values the state was constructed with
Render_AtConstruction ==
  [db |-> InitialState.db, migrationsComplete |-> InitialState.migrationsComplete,
   migrationResult |-> InitialState.migrationResult,
   runnerInFlight |-> boot.runner = "inFlight"]

\* render(): h(RootComponent, { db, migrationsComplete, migrationResult }),
\* with a note of whether the migration runner is running at that time
Render ==
  [db |-> state.db, migrationsComplete |-> state.migrationsComplete,
   migrationResult |-> state.migrationResult,
   runnerInFlight |-> boot.runner = "inFlight"]

\* Mutant of Provide: a copy of the context's fields is published
Provide_Copy == [ref |-> "copy", value |-> databaseContext]

\* app.provide(DatabaseContextKey, databaseContext): the object itself is
\* published, by reference
Provide == [ref |-> "databaseContext"]

\* What a published object holds when it is read
Deref(p) == IF p.ref = "databaseContext" THEN databaseContext ELSE p.value

\* Mutant of HandleInstance: configureApp runs before the context is provided
HandleInstance_ConfigureFirst(outCfg) ==
  (IF opts.configureApp THEN <<"configureApp">> ELSE <<>>)
  \o (IF opts.configureApp /\ outCfg # None THEN <<"throw">> ELSE <<"provide", "vueApp">>)

\* handleInstance: what happens to the new app instance, in order; the last
\* event is "throw" when configureApp throws (outCfg is what it does)
HandleInstance(outCfg) ==
  <<"provide">>
  \o (IF opts.configureApp THEN <<"configureApp">> ELSE <<>>)
  \o (IF opts.configureApp /\ outCfg # None THEN <<"throw">> ELSE <<"vueApp">>)

\* vueLifecycles.mount: the bridge creates the app instance from appOptions,
\* runs handleInstance, then mounts the instance, which renders
VueMount(outCfg) ==
  LET app == vue.instances + 1
      events == HandleInstance(outCfg)
      thrown == events[Len(events)] = "throw"
  IN IF thrown
     THEN /\ vue' = [vue EXCEPT !.instances = app, !.events = events,
                                !.promise = "rejected"]
          /\ UNCHANGED state
     ELSE /\ vue' = [mounted |-> TRUE, instances |-> app,
                     events |-> Append(events, "render"),
                     promise |-> "resolved", render |-> Some(Render),
                     provided |-> Some(Provide)]
          /\ state' = [state EXCEPT !.vueApp = Some(app)]

\* vueLifecycles.unmount: the bridge unmounts and drops the instance
VueUnmount ==
  /\ vue' = [vue EXCEPT !.mounted = FALSE, !.events = <<>>,
                         !.promise = "resolved", !.render = None,
                         !.provided = None]
  /\ UNCHANGED state

\* ------------------------------------------------------------------- host
\* The host (single-spa) awaits the promise of a lifecycle function before it
\* calls the next one: no lifecycle function is entered while one is pending
HostMayCall == boot.pc # "awaiting" /\ task.status # "pending"
               /\ host.calls < MaxHostCalls

\* The host mounts only after the promise returned by bootstrap has settled
HostMayMount ==
  IF wiring.mode = "direct"
  THEN nCalls >= 1 /\ boot.pc \in {"resolved", "rejected"}
  ELSE host.booted

HostCalled == [host EXCEPT !.calls = @ + 1]

HostBootstrap(db) ==
  /\ wiring.mode = "direct"
  /\ HostMayCall
  /\ Bootstrap(db)
  /\ host' = HostCalled
  /\ UNCHANGED <<opts, vue, wiring, task>>
  /\ UNCHANGED accVars

HostMount(outCfg) ==
  /\ wiring.mode = "direct"
  /\ HostMayCall
  /\ HostMayMount
  /\ ~vue.mounted
  /\ VueMount(outCfg)
  /\ host' = HostCalled
  /\ UNCHANGED <<opts, wiring, task>>
  /\ UNCHANGED bootVars
  /\ UNCHANGED accVars

HostUnmount ==
  /\ wiring.mode = "direct"
  /\ HostMayCall
  /\ vue.mounted
  /\ VueUnmount
  /\ host' = HostCalled
  /\ UNCHANGED <<opts, wiring, task>>
  /\ UNCHANGED bootVars
  /\ UNCHANGED accVars

\* ------------------------------------------------------ combineLifecycles
\* runLifecycleFn(fn, props): the functions it calls, each awaited before the
\* next is called
RunLifecycleFn(fn) == IF fn.isArray THEN fn.fns ELSE <<fn.fns[1]>>

\* Mutant of MergedBootstrap: the second lifecycle's bootstrap runs first
MergedBootstrap_SecondFirst(A, B) ==
  RunLifecycleFn(B.bootstrap) \o RunLifecycleFn(A.bootstrap)

\* merged bootstrap: runLifecycleFn(eldrinLifecycle.bootstrap), then
\* runLifecycleFn(vueLifecycle.bootstrap)
MergedBootstrap(A, B) == RunLifecycleFn(A.bootstrap) \o RunLifecycleFn(B.bootstrap)

\* Mutant of MergedMount: both lifecycles' mount functions run
MergedMount_Both(A, B) == RunLifecycleFn(A.mount) \o RunLifecycleFn(B.mount)

\* merged mount: runLifecycleFn(vueLifecycle.mount)
MergedMount(A, B) == RunLifecycleFn(B.mount)

\* merged unmount: runLifecycleFn(vueLifecycle.unmount)
MergedUnmount(A, B) == RunLifecycleFn(B.unmount)

\* combineLifecycles(eldrinLifecycle, vueLifecycle)
CombineLifecycles(A, B) ==
  [bootstrap |-> MergedBootstrap(A, B),
   mount |-> MergedMount(A, B),
   unmount |-> MergedUnmount(A, B)]

IsEldrin(f, op) == f.owner = "E" /\ f.op = op

\* What a lifecycle function leaves in the log when it is called and when its
\* promise settles, with a note of whether the migration runner is running
Event(ev, f) == [ev |-> ev, fn |-> f, runnerInFlight |-> boot.runner = "inFlight"]

\* await f(props), up to the suspension: f is called. The createApp
\* lifecycle's functions act as above; a probe logs the call and stays pending.
CallPhase(t, outCfg) ==
  LET f == t.plan[t.i]
      t1 == [t EXCEPT !.trace = Append(@, Event("start", f))]
  IN IF IsEldrin(f, "bootstrap")
     THEN /\ Bootstrap(t.db)
          /\ task' = [t1 EXCEPT !.cur = "eldrin"]
          /\ UNCHANGED vue
     ELSE IF IsEldrin(f, "mount")
     THEN /\ VueMount(outCfg)
          /\ task' = [t1 EXCEPT !.cur = vue'.promise]
          /\ UNCHANGED bootVars
     ELSE IF IsEldrin(f, "unmount")
     THEN /\ VueUnmount
          /\ task' = [t1 EXCEPT !.cur = vue'.promise]
          /\ UNCHANGED bootVars
     ELSE /\ task' = [t1 EXCEPT !.cur = "pending"]
          /\ UNCHANGED <<state, vue>>
          /\ UNCHANGED bootVars

\* The error a probe function rejects with
ProbeError(f) ==
  [kind |-> "Error", text |-> "probe failed", ref |-> "probeError", by |-> f]

\* Mutant of Awaited: a rejection of the awaited promise is swallowed
Awaited_SwallowsRejection(t) ==
  LET p == IF t.cur = "eldrin" THEN boot.pc ELSE t.cur
  IN IF p = "rejected" THEN "resolved" ELSE p

\* The promise the merged function is suspended on
Awaited(t) == IF t.cur = "eldrin" THEN boot.pc ELSE t.cur

\* What the awaited promise has rejected with: what escaped bootstrap, what
\* configureApp threw in the bridge's mount, or the probe's error
RejectionOf(t) ==
  LET f == t.plan[t.i]
  IN IF IsEldrin(f, "bootstrap") THEN last.rejection
     ELSE IF f.owner = "E" THEN Some(CHOOSE v \in ThrownByCallback : TRUE)
     ELSE Some(ProbeError(f))

\* The merged function calls the first function of its plan, or returns when
\* the plan is empty
StartTask(t, outCfg) ==
  IF t.plan = <<>>
  THEN /\ task' = [t EXCEPT !.status = "resolved"]
       /\ UNCHANGED <<state, vue>>
       /\ UNCHANGED bootVars
  ELSE CallPhase([t EXCEPT !.i = 1], outCfg)

\* The host calls a function of the merged lifecycle
MergedCall(op, db, outCfg) ==
  /\ wiring.mode = "combined"
  /\ HostMayCall
  /\ op = "mount" => HostMayMount
  /\ LET merged == CombineLifecycles(wiring.A, wiring.B)
         t == [IdleTask EXCEPT !.op = op, !.db = db, !.plan = merged[op],
                               !.status = "pending"]
     IN /\ StartTask(t, outCfg)
        /\ host' = [HostCalled EXCEPT
                      !.booted = @ \/ (op = "bootstrap" /\ task'.status # "pending")]
  /\ UNCHANGED <<opts, wiring>>
  /\ UNCHANGED accVars

\* The promise of a pending probe function resolves or rejects
ProbeSettles(ok) ==
  /\ task.status = "pending"
  /\ task.cur = "pending"
  /\ task' = [task EXCEPT
                !.cur = IF ok THEN "resolved" ELSE "rejected",
                !.trace = Append(@, Event(IF ok THEN "end" ELSE "reject",
                                          task.plan[task.i]))]
  /\ UNCHANGED <<opts, state, vue, wiring, host>>
  /\ UNCHANGED bootVars
  /\ UNCHANGED accVars

\* The awaited promise has settled: the merged function goes on to the next
\* function of its plan, returns after the last, or rejects with the rejection
TaskContinues(outCfg) ==
  /\ task.status = "pending"
  /\ Awaited(task) \in {"resolved", "rejected"}
  /\ LET t == [task EXCEPT !.cur = "none"]
         settles == Awaited(task) = "rejected" \/ task.i = Len(task.plan)
     IN /\ IF Awaited(task) = "rejected"
           THEN /\ task' = [t EXCEPT !.status = "rejected",
                                      !.rejection = RejectionOf(task)]
                /\ UNCHANGED <<state, vue>>
                /\ UNCHANGED bootVars
           ELSE IF task.i = Len(task.plan)
           THEN /\ task' = [t EXCEPT !.status = "resolved"]
                /\ UNCHANGED <<state, vue>>
                /\ UNCHANGED bootVars
           ELSE CallPhase([t EXCEPT !.i = @ + 1], outCfg)
        /\ host' = [host EXCEPT !.booted = @ \/ (task.op = "bootstrap" /\ settles)]
  /\ UNCHANGED <<opts, wiring>>
  /\ UNCHANGED accVars

Next ==
  \/ \E db \in PropsDb : HostBootstrap(db)
  \/ \E result \in MigrationResults(opts.migrations), script \in CallbackScripts :
       RunnerResolves(result, script)
  \/ \E error \in ThrownByRunner, out \in CallbackOutcomes :
       RunnerRaises(error, <<out>>)
  \/ \E outCfg \in CallbackOutcomes : HostMount(outCfg)
  \/ HostUnmount
  \/ \E op \in Ops, db \in PropsDb, outCfg \in CallbackOutcomes :
       MergedCall(op, db, outCfg)
  \/ \E ok \in BOOLEAN : ProbeSettles(ok)
  \/ \E outCfg \in CallbackOutcomes : TaskContinues(outCfg)

Spec == Init /\ [][Next]_vars

\* The call of runMigrations returns or raises
RunnerSettles ==
  \/ \E result \in MigrationResults(opts.migrations), script \in CallbackScripts :
       RunnerResolves(result, script)
  \/ \E error \in ThrownByRunner, out \in CallbackOutcomes :
       RunnerRaises(error, <<out>>)

\* The createApp lifecycle driven directly by the host, with any migrations
\* and callbacks (configureApp, which bootstrap never calls, left out)
DirectInit ==
  /\ wiring \in {w \in Wirings : w.mode = "direct"}
  /\ opts \in {o \in CreateAppOptions : ~o.configureApp}
  /\ shell = None
  /\ Constructed

DirectNext ==
  \/ \E db \in PropsDb : HostBootstrap(db)
  \/ RunnerSettles
  \/ HostMount(None)
  \/ HostUnmount

\* That lifecycle with a migration runner whose every call eventually settles:
\* the continuation of the await runs once the runner's promise has settled
FairSpec == DirectInit /\ [][DirectNext]_vars /\ WF_vars(RunnerSettles)

\* -------------------------------------------------------------- accessors
\* What an accessor call gives: a returned value (with or without a
\* console.warn), or a raised error
Returns(v) == [ret |-> Some(v), warned |-> FALSE, raised |-> None]
Warns(v) == [ret |-> Some(v), warned |-> TRUE, raised |-> None]
Raises(e) == [ret |-> None, warned |-> FALSE, raised |-> e]

\* inject(DatabaseContextKey): what the app instance of the calling component
\* was provided with; undefined where there is no app context
Inject(site) == IF site = "component" THEN vue.provided ELSE None

\* useDatabase()
UseDatabase(site) ==
  LET context == Inject(site)
  IN IF context = None THEN Warns(Null) ELSE Returns(Deref(context[1]).db)

\* useDatabaseContext(): the context object itself, read here at the call
UseDatabaseContext(site) ==
  LET context == Inject(site)
  IN IF context = None
     THEN Warns([db |-> Null, migrationsComplete |-> FALSE, migrationResult |-> None])
     ELSE Returns(Deref(context[1]))

\* useMigrationsComplete(): context?.migrationsComplete ?? false
UseMigrationsComplete(site) ==
  LET context == Inject(site)
  IN IF context = None THEN Returns(FALSE)
     ELSE Returns(Deref(context[1]).migrationsComplete)

\* getEldrinGlobal(): win.__ELDRIN__ ?? null
GetEldrinGlobal == shell

\* useEldrinGlobal()
UseEldrinGlobal == GetEldrinGlobal

\* Mutant of UseAuthHeaders: the shell's headers are dropped
UseAuthHeaders_AlwaysEmpty == Returns(NoHeaders)

\* useAuthHeaders(): eldrin?.getAuthHeaders?.() ?? {}. The capability is
\* called where the global and the capability are there; what it throws is
\* not caught.
UseAuthHeaders ==
  LET eldrin == UseEldrinGlobal
  IN IF eldrin = None THEN Returns(NoHeaders)
     ELSE IF eldrin[1].getAuthHeaders = None THEN Returns(NoHeaders)
     ELSE LET cap == eldrin[1].getAuthHeaders[1]
          IN IF cap.does = "throws" THEN Raises(cap.error)
             ELSE Returns(cap.headers)

\* Mutant of AccessorFrame: an accessor resets the context's db as it reads
AccessorFrame_ClearsDb ==
  /\ databaseContext' = [databaseContext EXCEPT !.db = Null]
  /\ UNCHANGED <<opts, state, boot, nCalls, runnerCalls, last, vue, wiring,
                 task, host, shell>>

\* The accessors assign to nothing: not to the context, not to the state
AccessorFrame ==
  UNCHANGED <<opts, state, databaseContext, boot, nCalls, runnerCalls, last,
              vue, wiring, task, host, shell>>

\* The record of an accessor call: which, from where, at which point of the
\* latest bootstrap, and what it gave
AccessorCall(fn, site, out) ==
  [fn |-> fn, site |-> site, bootPc |-> boot.pc, ret |-> out.ret,
   warned |-> out.warned, raised |-> out.raised]

\* A component exists only in a mounted app instance
SiteExists(site) == site = "component" => vue.mounted

CallUseDatabase(site) ==
  /\ SiteExists(site)
  /\ acc' = AccessorCall("useDatabase", site, UseDatabase(site))
  /\ AccessorFrame

CallUseDatabaseContext(site) ==
  /\ SiteExists(site)
  /\ acc' = AccessorCall("useDatabaseContext", site, UseDatabaseContext(site))
  /\ AccessorFrame

CallUseMigrationsComplete(site) ==
  /\ SiteExists(site)
  /\ acc' = AccessorCall("useMigrationsComplete", site, UseMigrationsComplete(site))
  /\ AccessorFrame

\* The two accessors of the shell global read no app context: they act alike
\* at every site
CallUseEldrinGlobal ==
  /\ acc' = AccessorCall("useEldrinGlobal", "any", Returns(UseEldrinGlobal))
  /\ AccessorFrame

CallUseAuthHeaders ==
  /\ acc' = AccessorCall("useAuthHeaders", "any", UseAuthHeaders)
  /\ AccessorFrame

\* An app that the host drives directly, under any shell global, with its
\* accessors called at any time
AccessorInit ==
  /\ wiring \in {w \in Wirings : w.mode = "direct"}
  /\ opts \in {[DefaultOptions EXCEPT !.migrations = n] : n \in 0..MaxMigrations}
  /\ shell \in ShellGlobals
  /\ Constructed

AccessorNext ==
  \/ \E db \in PropsDb : HostBootstrap(db)
  \/ \E result \in MigrationResults(opts.migrations) :
       RunnerResolves(result, <<None>>)
  \/ \E error \in ThrownByRunner : RunnerRaises(error, <<None>>)
  \/ HostMount(None)
  \/ HostUnmount
  \/ \E site \in Sites : CallUseDatabase(site)
  \/ \E site \in Sites : CallUseDatabaseContext(site)
  \/ \E site \in Sites : CallUseMigrationsComplete(site)
  \/ CallUseEldrinGlobal
  \/ CallUseAuthHeaders

AccessorSpec == AccessorInit /\ [][AccessorNext]_vars

\* ================================================================= claims
\* A step that runs a synchronous segment of bootstrap leaves its trace in last
BootstrapSegment == last' # last

\* The latest segment ended its invocation of bootstrap
BootstrapEnded == last.outcome \in {"resolved", "rejected"}

\* ---- C1
\* C1 as stated: every bootstrap call whose props carry no database handle
\* completes with migrationsComplete = true and migrationResult = null in both
\* records, and does not invoke the migration runner.
C1_AsStated ==
  (last.kind = "call" /\ last.db = Null) =>
     /\ last.outcome = "resolved"
     /\ last.post.state.migrationsComplete /\ last.post.ctx.migrationsComplete
     /\ last.post.state.migrationResult = None
     /\ last.post.ctx.migrationResult = None
     /\ ~last.runnerInvoked

\* C1, amended: every bootstrap call whose props carry no database handle
\* completes (resolves) with migrationsComplete = true in both records, leaves
\* migrationResult and db in both records as they were before the call
\* (migrationResult is null when it is the lifecycle's first bootstrap call),
\* and does not invoke the migration runner.
C1_NoDbStep ==
  (BootstrapSegment /\ last'.kind = "call" /\ last'.db = Null) =>
     /\ last'.outcome = "resolved" /\ boot'.pc = "resolved"
     /\ state'.migrationsComplete /\ databaseContext'.migrationsComplete
     /\ state'.migrationResult = state.migrationResult
     /\ databaseContext'.migrationResult = databaseContext.migrationResult
     /\ state'.db = state.db /\ databaseContext'.db = databaseContext.db
     /\ runnerCalls' = runnerCalls /\ boot'.runner = "notInvoked"

C1_FirstCall ==
  (last.kind = "call" /\ last.db = Null /\ last.call = 1) =>
     /\ last.post.state.migrationResult = None
     /\ last.post.ctx.migrationResult = None

C1_NoDbBootstrap == []C1_FirstCall /\ [][C1_NoDbStep]_vars

\* C1's case: a call without a handle, made with migration files supplied and
\* after an earlier call has stored a result
C1_Witness ==
  /\ last.kind = "call" /\ last.db = Null /\ last.call > 1
  /\ opts.migrations > 0
  /\ state.migrationResult # None /\ state.migrationsComplete

\* ---- C2
\* C2: after a bootstrap with a handle and a non-empty migration list whose
\* runner resolves with {success: true, executed: N}, migrationsComplete is
\* true, migrationResult.executed = N, and onMigrationsComplete (if supplied)
\* has been invoked exactly once with that result.
C2_SuccessCompletes ==
  (last.kind = "resolved" /\ last.result[1].success /\ last.result[1].error = None) =>
     /\ last.post.state.migrationsComplete /\ last.post.ctx.migrationsComplete
     /\ last.post.state.migrationResult # None
     /\ last.post.state.migrationResult[1].executed = last.result[1].executed
     /\ opts.onMigrationsComplete => last.complete = <<last.result[1]>>

\* ---- C3
\* C3: after a bootstrap whose runner resolves with {success: false,
\* error: {message: M}}, migrationsComplete is false, the result is stored as
\* migrationResult, and onMigrationError (if supplied) has been invoked
\* exactly once, with an error whose message is M.
C3_FailureNotifiesOnce ==
  (last.kind = "resolved" /\ ~last.result[1].success /\ last.result[1].error # None) =>
     /\ ~last.post.state.migrationsComplete /\ ~last.post.ctx.migrationsComplete
     /\ last.post.state.migrationResult = last.result
     /\ opts.onMigrationError =>
          /\ Len(last.error) = 1
          /\ last.error[1].kind = "Error"
          /\ last.error[1].text = last.result[1].error[1].message

\* ---- C4
\* C4: when the runner raises, bootstrap ends with migrationsComplete = false
\* in both records and onMigrationError (if supplied) invoked exactly once:
\* with the raised value itself when it is an Error, with a new Error made
\* from it otherwise.
C4_RaisedEnds ==
  last.kind = "raised" =>
     /\ BootstrapEnded
     /\ ~last.post.state.migrationsComplete /\ ~last.post.ctx.migrationsComplete
     /\ ~opts.onMigrationError => last.error = <<>>
     /\ opts.onMigrationError =>
          /\ Len(last.error) = 1
          /\ last.raised[1].kind = "Error" => last.error[1] = last.raised[1]
          /\ last.raised[1].kind # "Error" =>
               /\ last.error[1].kind = "Error"
               /\ last.error[1].ref = "new"
               /\ last.error[1].text = last.raised[1].text
     /\ last.call = 1 => last.post.state.migrationResult = None
                          /\ last.post.ctx.migrationResult = None

\* C4, migrationResult left unset: the segment that handles the raise does
\* not write migrationResult in either record.
C4_RaisedStep ==
  (BootstrapSegment /\ last'.kind = "raised") =>
     /\ state'.migrationResult = state.migrationResult
     /\ databaseContext'.migrationResult = databaseContext.migrationResult

C4_RunnerRaises == []C4_RaisedEnds /\ [][C4_RaisedStep]_vars

\* C4's case: the runner has raised a value that is no Error and the supplied
\* onMigrationError has been given a wrapped error
C4_Witness ==
  /\ last.kind = "raised" /\ opts.onMigrationError
  /\ last.raised[1].kind # "Error"
  /\ Len(last.error) = 1 /\ last.error[1].kind = "Error"

\* ---- C5
\* C5: the promise returned by a createApp lifecycle's bootstrap never
\* rejects, whatever the runner and the callbacks do.
C5_NeverRejects == boot.pc # "rejected" /\ last.outcome # "rejected"

\* ---- C6
\* C6: within one bootstrap call onMigrationsComplete is invoked at most once
\* and onMigrationError is invoked at most once.
C6_AtMostOnceEach == Len(last.complete) <= 1 /\ Len(last.error) <= 1

\* ---- C7
\* C7: at every boundary of bootstrap (before the call, at the suspension on
\* the runner, after completion) db, migrationsComplete and migrationResult of
\* AppState equal those of DatabaseContext.
C7_RecordsAgree == Shared(state) = databaseContext

\* C7's case: a bootstrap has stored a failed result and is over
C7_Witness ==
  /\ last.kind = "resolved" /\ BootstrapEnded
  /\ state.db # Null /\ state.migrationResult # None
  /\ ~state.migrationResult[1].success


\* ---- helpers for the claims on the merged lifecycle
IsStart(e) == e.ev = "start"

\* The functions the latest merged invocation has called, in order
Called == LET starts == SelectSeq(task.trace, IsStart)
          IN [j \in 1..Len(starts) |-> starts[j].fn]

IsPrefix(s, t) == Len(s) <= Len(t) /\ \A j \in 1..Len(s) : s[j] = t[j]

Range(s) == {s[j] : j \in 1..Len(s)}

\* ---- C8
\* C8: with a host that mounts only after the promise returned by bootstrap
\* has settled, no mount and no render happens while the migration runner is
\* running, for the createApp lifecycle and for combineLifecycles(createApp
\* lifecycle, other).
C8_MountAfterMigrations ==
  /\ vue.render # None => ~vue.render[1].runnerInFlight
  /\ \A j \in 1..Len(task.trace) :
       (IsStart(task.trace[j]) /\ task.trace[j].fn.op = "mount") =>
          ~task.trace[j].runnerInFlight

\* C8's case: the root component has been rendered after a bootstrap that ran
\* the migration runner
C8_Witness ==
  /\ vue.mounted /\ vue.render # None
  /\ runnerCalls >= 1 /\ boot.runner = "settled"
  /\ vue.render[1].migrationResult # None

\* ---- C9
\* C9: the merged bootstrap calls A's bootstrap functions in their listed
\* order, then B's in their listed order, and calls none before the one
\* before it has completed.
C9_FirstThenSecond ==
  (wiring.mode = "combined" /\ task.op = "bootstrap") =>
     /\ IsPrefix(Called, wiring.A.bootstrap.fns \o wiring.B.bootstrap.fns)
     /\ \A j \in 2..Len(task.trace) :
          IsStart(task.trace[j]) =>
             IF IsEldrin(task.trace[j - 1].fn, "bootstrap")
             THEN boot.pc = "resolved" /\ ~task.trace[j].runnerInFlight
             ELSE task.trace[j - 1].ev = "end"

\* C9's case: a merged bootstrap over two phase arrays of two functions each
\* has run to its end
C9_Witness ==
  /\ wiring.mode = "combined" /\ task.op = "bootstrap"
  /\ task.status = "resolved"
  /\ Len(wiring.A.bootstrap.fns) = 2 /\ Len(wiring.B.bootstrap.fns) = 2
  /\ Len(Called) = 4

\* ---- C10
\* C10: a mount call on the merged lifecycle runs B's mount functions and no
\* others, an unmount call B's unmount functions and no others; A's mount and
\* unmount functions are never called.
C10_OnlySecondMounts ==
  wiring.mode = "combined" =>
     /\ Range(Called) \cap
          (Range(wiring.A.mount.fns) \cup Range(wiring.A.unmount.fns)) = {}
     /\ vue = NoInstance
     /\ task.op \in {"mount", "unmount"} =>
          /\ IsPrefix(Called, wiring.B[task.op].fns)
          /\ task.status = "resolved" => Called = wiring.B[task.op].fns

\* C10's case: a merged mount over an array of two mount functions has run
C10_Witness ==
  /\ wiring.mode = "combined" /\ task.op = "mount" /\ task.status = "resolved"
  /\ Len(wiring.B.mount.fns) = 2 /\ Len(Called) = 2

\* ---- C11
\* C11: a bootstrap call invokes the migration runner if and only if its props
\* carry a database handle and the migrations list is not empty; with a handle
\* and an empty list the call records the handle in both records, ends with
\* migrationsComplete = true and invokes neither callback.
C11_RunnerIffDbAndMigrations ==
  last.kind = "call" =>
     /\ last.runnerInvoked <=> (last.db # Null /\ opts.migrations > 0)
     /\ last.runnerInvoked <=> boot.runner = "inFlight"
     /\ (last.db # Null /\ opts.migrations = 0) =>
          /\ last.outcome = "resolved"
          /\ last.post.state.db = last.db /\ last.post.ctx.db = last.db
          /\ last.post.state.migrationsComplete
          /\ last.post.ctx.migrationsComplete
          /\ last.complete = <<>> /\ last.error = <<>>

\* C11's case: a bootstrap call with a handle and an empty migrations list has
\* returned, with both callbacks supplied
C11_Witness ==
  /\ last.kind = "call" /\ last.db # Null /\ opts.migrations = 0
  /\ opts.onMigrationsComplete /\ opts.onMigrationError
  /\ last.outcome = "resolved" /\ runnerCalls = 0

\* ---- C12
\* C12: bootstrap is not guarded: every invocation with a database handle and
\* a non-empty migrations list invokes the migration runner once more, the
\* second invocation on the same lifecycle like the first.
C12_Step ==
  (nCalls' = nCalls + 1 /\ last'.db # Null /\ opts.migrations > 0) =>
     /\ runnerCalls' = runnerCalls + 1
     /\ boot'.runner = "inFlight"

C12_RunnerOncePerCall == [][C12_Step]_vars

\* C12's case: the second invocation of bootstrap on one lifecycle has invoked
\* the runner a second time
C12_Witness ==
  /\ nCalls = 2 /\ runnerCalls = 2
  /\ last.kind = "call" /\ last.call = 2 /\ last.runnerInvoked

\* ---- C13
\* C13: useAuthHeaders() returns the empty mapping when the shell global is
\* absent or has no getAuthHeaders capability, and what the shell's
\* getAuthHeaders() returned, unchanged, otherwise.
C13_AuthHeaders ==
  acc.fn = "useAuthHeaders" =>
     /\ shell = None => acc.ret = Some(NoHeaders)
     /\ (shell # None /\ shell[1].getAuthHeaders = None) =>
          acc.ret = Some(NoHeaders)
     /\ (shell # None /\ shell[1].getAuthHeaders # None
           /\ shell[1].getAuthHeaders[1].does = "returns") =>
          acc.ret = Some(shell[1].getAuthHeaders[1].headers)

\* C13's case: the shell's capability returned a header and useAuthHeaders()
\* has been called
C13_Witness ==
  /\ acc.fn = "useAuthHeaders"
  /\ shell # None /\ shell[1].getAuthHeaders # None
  /\ shell[1].getAuthHeaders[1].headers # NoHeaders
  /\ acc.ret # None /\ acc.ret[1] # NoHeaders

\* ---- C14
\* C14: useAuthHeaders() never raises, whatever the shell global is and
\* whatever its getAuthHeaders capability does.
C14_NeverRaises == acc.fn = "useAuthHeaders" => acc.raised = None

\* ---- C15
\* A step in which an accessor is called
AccessorStep == acc' # acc

\* C15: called where no context is reachable, useDatabase() returns null with
\* a warning, useDatabaseContext() returns {db: null, migrationsComplete:
\* false, migrationResult: null} with a warning and useMigrationsComplete()
\* returns false with no warning, none of them raising; called where the
\* context is reachable, each returns the value the context holds at the call.
C15_Step ==
  AccessorStep =>
     LET reachable == acc'.site = "component"
         default == [db |-> Null, migrationsComplete |-> FALSE,
                     migrationResult |-> None]
     IN /\ acc'.fn = "useDatabase" =>
             /\ acc'.raised = None
             /\ acc'.warned = ~reachable
             /\ acc'.ret = Some(IF reachable THEN databaseContext.db ELSE Null)
        /\ acc'.fn = "useDatabaseContext" =>
             /\ acc'.raised = None
             /\ acc'.warned = ~reachable
             /\ acc'.ret = Some(IF reachable THEN databaseContext ELSE default)
        /\ acc'.fn = "useMigrationsComplete" =>
             /\ acc'.raised = None
             /\ ~acc'.warned
             /\ acc'.ret = Some(IF reachable
                                THEN databaseContext.migrationsComplete
                                ELSE FALSE)

C15_AccessorDefaults == [][C15_Step]_vars

\* C15's case: useDatabaseContext() has been called outside any app context
\* while the context holds a handle and a result, and gave the default record
C15_Witness ==
  /\ acc.fn = "useDatabaseContext" /\ acc.site = "outside" /\ acc.warned
  /\ acc.bootPc = "resolved"
  /\ databaseContext.db # Null /\ databaseContext.migrationResult # None
  /\ acc.ret[1].db = Null

\* ---- C16
\* C16: an accessor call, at any point of a bootstrap, changes nothing but
\* the record of the call itself, and a bootstrap that was suspended on the
\* runner ends with the handle it recorded at the suspension and the runner's
\* result, whatever accessor calls were made meanwhile.
C16_Step ==
  /\ AccessorStep =>
       UNCHANGED <<opts, state, databaseContext, boot, nCalls, runnerCalls,
                   last, vue, shell>>
  /\ (last' # last /\ last'.kind = "resolved") =>
       LET end == [db |-> last.post.state.db,
                   migrationsComplete |-> last'.result[1].success,
                   migrationResult |-> last'.result]
       IN Shared(state') = end /\ databaseContext' = end

C16_AccessorsReadOnly == [][C16_Step]_vars

\* C16's case: a component called useDatabaseContext() while bootstrap was
\* suspended on the runner, and the bootstrap has since ended
C16_Witness ==
  /\ acc.fn = "useDatabaseContext" /\ acc.site = "component"
  /\ acc.bootPc = "awaiting"
  /\ last.kind = "resolved" /\ boot.pc = "resolved"

\* ---- C17
\* C17: a mount or an unmount leaves db, migrationsComplete and
\* migrationResult of AppState and of DatabaseContext as they were, and the
\* render of a mount passes the root component the values the three fields
\* hold at that time.
C17_Step ==
  (vue' # vue) =>
     /\ Shared(state') = Shared(state)
     /\ databaseContext' = databaseContext
     /\ (vue'.mounted /\ ~vue.mounted) =>
          /\ vue'.render # None
          /\ vue'.render[1].db = state.db
          /\ vue'.render[1].migrationsComplete = state.migrationsComplete
          /\ vue'.render[1].migrationResult = state.migrationResult

C17_FieldsPersist == [][C17_Step]_vars

\* C17's case: after a bootstrap that stored a handle and a result, the app
\* has been mounted and unmounted, and the fields are still there
C17_Witness ==
  /\ ~vue.mounted /\ vue.instances >= 1 /\ vue.promise = "resolved"
  /\ state.db # Null /\ state.migrationsComplete
  /\ state.migrationResult # None
  /\ databaseContext = Shared(state)

\* ---- C18
\* C18: every handleInstance provides the DatabaseContext to the new app
\* instance first and runs configureApp, where supplied, after it; what is
\* provided is the DatabaseContext object itself, so a reader of the provided
\* object sees what bootstrap has written since.
C18_ProvideBeforeConfigure ==
  /\ vue.events # <<>> =>
       /\ vue.events[1] = "provide"
       /\ opts.configureApp => vue.events[2] = "configureApp"
       /\ \A j \in 1..Len(vue.events) :
            vue.events[j] = "provide" => j = 1
  /\ vue.mounted =>
       /\ vue.provided # None
       /\ vue.provided[1].ref = "databaseContext"
       /\ Deref(vue.provided[1]) = databaseContext

\* C18's case: an instance was created with configureApp supplied, and a
\* bootstrap after the mount has written a result the render had not seen
C18_Witness ==
  /\ vue.mounted /\ opts.configureApp
  /\ vue.events = <<"provide", "configureApp", "vueApp", "render">>
  /\ vue.render[1].migrationResult = None
  /\ databaseContext.migrationResult # None

\* ---- C19
\* Only the settling of the runner ends a suspension of bootstrap
C19_EndsOnlyWithRunner ==
  (boot.pc = "awaiting" /\ boot'.pc # "awaiting") =>
     (boot.runner = "inFlight" /\ boot'.runner = "settled" /\ last' # last)

\* C19: with a runner whose call eventually returns or raises, a suspended
\* bootstrap eventually completes; it is suspended exactly as long as the
\* runner has not settled and nothing else ends the suspension (no timeout, no
\* cancellation); and migrationsComplete is false in both records all the time
\* the first bootstrap is suspended.
C19_Termination ==
  /\ (boot.pc = "awaiting") ~> (boot.pc \in {"resolved", "rejected"})
  /\ [](boot.pc = "awaiting" <=> boot.runner = "inFlight")
  /\ [][C19_EndsOnlyWithRunner]_vars
  /\ []((nCalls = 1 /\ boot.pc = "awaiting") =>
          (~state.migrationsComplete /\ ~databaseContext.migrationsComplete))

\* C19's case: the first bootstrap is suspended on the runner
C19_Witness ==
  /\ nCalls = 1 /\ boot.pc = "awaiting" /\ boot.runner = "inFlight"
  /\ state.db # Null /\ ~state.migrationsComplete

\* ---- C20
\* C20: whenever the runner returns a result with success = false and an
\* onMigrationError callback was supplied, the callback is invoked during the
\* bootstrap call, with or without an error descriptor in the result.
C20_FailureSurfaced ==
  (last.kind = "resolved" /\ ~last.result[1].success /\ opts.onMigrationError)
     => Len(last.error) >= 1

\* ---- C21
\* C21: in one bootstrap call onMigrationsComplete and onMigrationError are
\* never both invoked, whatever the runner and the callbacks do.
C21_NotBoth == ~(Len(last.complete) >= 1 /\ Len(last.error) >= 1)

\* ---- C22
\* C22: whenever the latest bootstrap call has completed, in both records
\* migrationsComplete = true implies that migrationResult is null or has
\* success = true, and migrationResult.success = true implies
\* migrationsComplete = true.
C22_FlagAgreesWithResult ==
  boot.pc \in {"resolved", "rejected"} =>
     \A r \in {Shared(state), databaseContext} :
        /\ r.migrationsComplete =>
             (r.migrationResult = None \/ r.migrationResult[1].success)
        /\ (r.migrationResult # None /\ r.migrationResult[1].success) =>
             r.migrationsComplete

\* ---- C23
\* C23: while the first invocation of bootstrap is suspended on the migration
\* runner, both records hold the handle of the props, migrationsComplete =
\* false and migrationResult = null.
C23_SuspendedFirstCall ==
  (nCalls = 1 /\ boot.runner = "inFlight") =>
     /\ boot.db # Null
     /\ \A r \in {Shared(state), databaseContext} :
          /\ r.db = boot.db
          /\ ~r.migrationsComplete
          /\ r.migrationResult = None

\* C23's case: the first invocation, made with a handle, has invoked the
\* runner and is suspended on it
C23_Witness ==
  /\ nCalls = 1 /\ runnerCalls = 1 /\ boot.runner = "inFlight"
  /\ last.kind = "call" /\ last.runnerInvoked /\ last.db \in Handles
  /\ databaseContext.db = last.db

\* ---- C24
\* A merged function that has rejected is not resumed: what follows is a new
\* invocation
C24_Step ==
  (task.status = "rejected" /\ task' # task) =>
     (task'.i <= 1 /\ Len(task'.trace) <= 1)

\* In the merged function's log, a rejection is followed by no call; a merged
\* function that has rejected rejects with the error of the function it was
\* awaiting, having called the functions of its list up to that one only; one
\* that has resolved awaited no rejection.
C24_Ends ==
  wiring.mode = "combined" =>
     /\ \A j \in 1..Len(task.trace) :
          task.trace[j].ev = "reject" => j = Len(task.trace)
     /\ task.status = "rejected" =>
          LET f == task.plan[task.i]
          IN /\ Called = SubSeq(task.plan, 1, task.i)
             /\ task.rejection # None
             /\ IF IsEldrin(f, "bootstrap")
                THEN /\ boot.pc = "rejected"
                     /\ task.rejection = last.rejection
                ELSE /\ task.trace[Len(task.trace)] = Event("reject", f)
                     /\ task.rejection = Some(ProbeError(f))
     /\ task.status = "resolved" =>
          /\ \A j \in 1..Len(task.trace) : task.trace[j].ev # "reject"
          /\ (task.op = "bootstrap" /\ wiring.A = EldrinLifecycle) =>
               boot.pc = "resolved"

\* C24: the merged bootstrap stops at the first of A's or B's bootstrap
\* functions that rejects, starts none after it and rejects with its error;
\* the merged mount and unmount do the same within B's list.
C24_StopAtFirstRejection == []C24_Ends /\ [][C24_Step]_vars

\* C24's case: the first of A's two bootstrap functions has rejected, and the
\* merged bootstrap has rejected with three functions never called
C24_Witness ==
  /\ wiring.mode = "combined" /\ task.op = "bootstrap"
  /\ task.status = "rejected" /\ task.i = 1 /\ Len(task.plan) = 4
  /\ Len(Called) = 1

====
